---------------------------- MODULE Spec2Model ----------------------------
(***************************************************************************)
(* A model of pdf_search.py: the keyword scan of search_pdf, the batch     *)
(* loop of main, and the pure text functions they use.                     *)
(*                                                                         *)
(* A Python str is a sequence of Unicode code points (naturals).  Offsets  *)
(* are Python's, counted from 0; PySlice and find convert to the 1-based   *)
(* sequences of TLA+.  The empty string is << >>.                          *)
(***************************************************************************)
EXTENDS Integers, Sequences, FiniteSets

(***************************************************************************)
(* Character classes of Python 3 (str patterns, str methods), exact on the *)
(* code points below U+0530 and on the others the inputs use.              *)
(***************************************************************************)
\* str.isspace and the class \s
IsSpace(c) ==
    \/ c \in 9..13
    \/ c \in 28..32
    \/ c \in {133, 160, 5760, 8232, 8233, 8239, 8287, 12288}
    \/ c \in 8192..8202

\* the class \d: the decimal digits of Unicode (ASCII, Arabic-Indic, ...)
IsDigit(c) ==
    \/ c \in 48..57
    \/ c \in 1632..1641
    \/ c \in 1776..1785

\* the class \w: what str.isalnum accepts, and the underscore
IsWord(c) ==
    \/ IsDigit(c)
    \/ c = 95
    \/ c \in 65..90
    \/ c \in 97..122
    \/ c \in {170, 178, 179, 181, 185, 186, 188, 189, 190}
    \/ c \in (192..214) \cup (216..246) \cup (248..705)
    \/ c \in (1024..1153) \cup (1162..1327)

\* faulty variant: the class without its second range, U+0500-U+052F
IsCyrillicBasic(c) == c \in 1024..1279

\* the character class [U+0400-U+04FF U+0500-U+052F] of clean_cyrillic
IsCyrillic(c) ==
    \/ c \in 1024..1279
    \/ c \in 1280..1327

NotComma(c) == c # 44

(***************************************************************************)
(* Python string primitives.                                               *)
(***************************************************************************)
Min(S) == CHOOSE x \in S : \A y \in S : x <= y

\* s[a:b] for 0 <= a
PySlice(s, a, b) ==
    LET hi == IF b < Len(s) THEN b ELSE Len(s)
    IN  IF a >= hi THEN << >> ELSE SubSeq(s, a + 1, hi)

\* s[a:]
PyFrom(s, a) == PySlice(s, a, Len(s))

\* str.lower of one code point: ASCII and Cyrillic capitals map to one
\* code point, U+0130 maps to the two code points U+0069 U+0307
LowerChar(c) ==
    IF c \in 65..90 THEN << c + 32 >>
    ELSE IF c \in 1040..1071 THEN << c + 32 >>
    ELSE IF c \in 1024..1039 THEN << c + 80 >>
    ELSE IF c = 304 THEN << 105, 775 >>
    ELSE << c >>

\* str.lower: every code point lowered, in order (computed by halves to
\* keep the recursion shallow on long texts)
RECURSIVE lower(_)
lower(s) ==
    IF s = << >> THEN << >>
    ELSE IF Len(s) = 1 THEN LowerChar(s[1])
    ELSE LET h == Len(s) \div 2
         IN  lower(SubSeq(s, 1, h)) \o lower(SubSeq(s, h + 1, Len(s)))

\* str.find(sub, start): the least offset >= start where sub occurs, or -1
find(s, sub, start) ==
    LET hits == { i \in start..(Len(s) - Len(sub)) :
                      SubSeq(s, i + 1, i + Len(sub)) = sub }
    IN  IF hits = {} THEN -1 ELSE Min(hits)

\* str.startswith
startswith(s, prefix) ==
    Len(prefix) <= Len(s) /\ SubSeq(s, 1, Len(prefix)) = prefix

\* str.strip(): leading and trailing whitespace removed
strip(s) ==
    LET keep == { i \in 1..Len(s) : ~IsSpace(s[i]) }
    IN  IF keep = {} THEN << >>
        ELSE SubSeq(s, Min(keep), CHOOSE x \in keep : \A y \in keep : y <= x)

\* str.replace('\n', ' ')
replace_newlines(s) == [ i \in 1..Len(s) |-> IF s[i] = 10 THEN 32 ELSE s[i] ]

(***************************************************************************)
(* Regular expression helpers: positions are 1-based.                      *)
(***************************************************************************)
\* the literal lit occurs in s at position p
HasAt(s, p, lit) ==
    p + Len(lit) - 1 <= Len(s) /\ SubSeq(s, p, p + Len(lit) - 1) = lit

\* the character c is of the class named P
InClass(P, c) ==
    CASE P = "IsSpace"  -> IsSpace(c)
      [] P = "IsDigit"  -> IsDigit(c)
      [] P = "IsWord"   -> IsWord(c)
      [] P = "NotComma" -> NotComma(c)

\* a greedy run of the class P from position i: the position after it
RunEnd(s, i, P) ==
    Min({ j \in i..(Len(s) + 1) : j = Len(s) + 1 \/ ~InClass(P, s[j]) })

\* the class P matches at position i
ClassAt(s, i, P) == i <= Len(s) /\ InClass(P, s[i])

\* .*? from position e can reach position q: '.' matches all but a newline
LazyDotReach(s, e, q) == \A k \in e..(q - 1) : s[k] # 10

(***************************************************************************)
(* The literals of the patterns and the configured keywords.               *)
(***************************************************************************)
LitInvoice == << 73, 110, 118, 111, 105, 99, 101 >>                \* "Invoice"
LitDateOfInvoice ==                                        \* "Date of invoice"
    << 68, 97, 116, 101, 32, 111, 102, 32, 105, 110, 118, 111, 105, 99, 101 >>
LitSupplier == << 83, 117, 112, 112, 108, 105, 101, 114 >>        \* "Supplier"
LitPrice ==                               \* "Price of the services rendered:"
    << 80, 114, 105, 99, 101, 32, 111, 102, 32, 116, 104, 101, 32, 115, 101,
       114, 118, 105, 99, 101, 115, 32, 114, 101, 110, 100, 101, 114, 101,
       100, 58 >>
LitCurrency == << 67, 117, 114, 114, 101, 110, 99, 121, 58 >>    \* "Currency:"
LitDateKeyword == LitDateOfInvoice \o << 58 >>            \* "Date of invoice:"
NumeroPrefix == << 8470, 32 >>                              \* U+2116 and ' '

(***************************************************************************)
(* clean_cyrillic: re.sub of the Cyrillic class by ''.                     *)
(***************************************************************************)
RECURSIVE clean_cyrillic(_)
clean_cyrillic(text) ==
    IF text = << >> THEN << >>
    ELSE IF Len(text) = 1
    THEN (IF IsCyrillic(text[1]) THEN << >> ELSE text)
    ELSE LET h == Len(text) \div 2
         IN  clean_cyrillic(SubSeq(text, 1, h))
                 \o clean_cyrillic(SubSeq(text, h + 1, Len(text)))

(***************************************************************************)
(* extract_invoice_number, pattern  Invoice.*?<U+2116>\s*(\d+\s*/\s*\d+)   *)
(***************************************************************************)
\* the pattern after .*? matches at q; the classes \d, \s and '/' are
\* disjoint, so the greedy runs never backtrack
InvoiceTail(s, q) ==
    /\ q <= Len(s) /\ s[q] = 8470
    /\ LET a == RunEnd(s, q + 1, "IsSpace")
       IN  /\ ClassAt(s, a, "IsDigit")
           /\ LET b == RunEnd(s, RunEnd(s, a, "IsDigit"), "IsSpace")
              IN  /\ b <= Len(s) /\ s[b] = 47
                  /\ ClassAt(s, RunEnd(s, b + 1, "IsSpace"), "IsDigit")

InvoiceGroup(s, q) ==
    LET a == RunEnd(s, q + 1, "IsSpace")
        b == RunEnd(s, RunEnd(s, a, "IsDigit"), "IsSpace")
        c == RunEnd(s, RunEnd(s, b + 1, "IsSpace"), "IsDigit")
    IN  SubSeq(s, a, c - 1)

extract_invoice_number(text) ==
    LET Q(p) == { q \in (p + Len(LitInvoice))..Len(text) :
                      /\ LazyDotReach(text, p + Len(LitInvoice), q)
                      /\ InvoiceTail(text, q) }
        starts == { p \in 1..Len(text) :
                      HasAt(text, p, LitInvoice) /\ Q(p) # {} }
    IN  IF starts = {} THEN << >>
        ELSE NumeroPrefix
                 \o strip(clean_cyrillic(InvoiceGroup(text, Min(Q(Min(starts))))))

(***************************************************************************)
(* extract_invoice_date, pattern  Date of invoice.*?(\d{2}\.\d{2}\.\d{4})  *)
(***************************************************************************)
DateTail(s, q) ==
    /\ q + 9 <= Len(s)
    /\ \A k \in {0, 1, 3, 4, 6, 7, 8, 9} : IsDigit(s[q + k])
    /\ s[q + 2] = 46 /\ s[q + 5] = 46

extract_invoice_date(text) ==
    LET Q(p) == { q \in (p + Len(LitDateOfInvoice))..Len(text) :
                      /\ LazyDotReach(text, p + Len(LitDateOfInvoice), q)
                      /\ DateTail(text, q) }
        starts == { p \in 1..Len(text) :
                      HasAt(text, p, LitDateOfInvoice) /\ Q(p) # {} }
    IN  IF starts = {} THEN << >>
        ELSE LET q == Min(Q(Min(starts))) IN SubSeq(text, q, q + 9)

(***************************************************************************)
(* extract_supplier, pattern  Supplier\s+([^,]+)                           *)
(***************************************************************************)
\* where the group starts for a match at p, or 0: \s+ takes the whole run
\* of whitespace, and gives its last character back to [^,]+ when a comma
\* or the end of the text follows the run
SupplierGroupStart(s, p) ==
    LET e == p + Len(LitSupplier)
        k == RunEnd(s, e, "IsSpace")
    IN  IF ~HasAt(s, p, LitSupplier) \/ k = e THEN 0
        ELSE IF ClassAt(s, k, "NotComma") THEN k
        ELSE IF k - e >= 2 THEN k - 1
        ELSE 0

extract_supplier(text) ==
    LET starts == { p \in 1..Len(text) : SupplierGroupStart(text, p) # 0 }
    IN  IF starts = {} THEN << >>
        ELSE LET g == SupplierGroupStart(text, Min(starts))
                 supplier_text == strip(SubSeq(text, g, RunEnd(text, g, "NotComma") - 1))
             IN  clean_cyrillic(supplier_text)

(***************************************************************************)
(* extract_price, pattern                                                 *)
(*     Price of the services rendered:\s*(\d+\.?\d* )                      *)
(***************************************************************************)
PriceGroupStart(s, p) == RunEnd(s, p + Len(LitPrice), "IsSpace")

extract_price(text) ==
    LET starts == { p \in 1..Len(text) :
                      /\ HasAt(text, p, LitPrice)
                      /\ ClassAt(text, PriceGroupStart(text, p), "IsDigit") }
    IN  IF starts = {} THEN << >>
        ELSE LET a == PriceGroupStart(text, Min(starts))
                 b == RunEnd(text, a, "IsDigit")
                 c == IF b <= Len(text) /\ text[b] = 46
                      THEN RunEnd(text, b + 1, "IsDigit") ELSE b
             IN  strip(SubSeq(text, a, c - 1))

(***************************************************************************)
(* extract_currency, pattern  Currency:\s*(\w+)                            *)
(***************************************************************************)
CurrencyGroupStart(s, p) == RunEnd(s, p + Len(LitCurrency), "IsSpace")

extract_currency(text) ==
    LET starts == { p \in 1..Len(text) :
                      /\ HasAt(text, p, LitCurrency)
                      /\ ClassAt(text, CurrencyGroupStart(text, p), "IsWord") }
    IN  IF starts = {} THEN << >>
        ELSE LET a == CurrencyGroupStart(text, Min(starts))
             IN  strip(clean_cyrillic(SubSeq(text, a, RunEnd(text, a, "IsWord") - 1)))

\* faulty variant: the extractor is chosen by what the window holds
process_match_by_content(keyword, matched_text) ==
    IF find(matched_text, LitCurrency, 0) # -1 THEN extract_currency(matched_text)
    ELSE IF find(matched_text, LitPrice, 0) # -1 THEN extract_price(matched_text)
    ELSE IF find(matched_text, LitSupplier, 0) # -1 THEN extract_supplier(matched_text)
    ELSE IF find(matched_text, LitDateOfInvoice, 0) # -1
    THEN extract_invoice_date(matched_text)
    ELSE IF find(matched_text, LitInvoice, 0) # -1
    THEN extract_invoice_number(matched_text)
    ELSE clean_cyrillic(matched_text)

(***************************************************************************)
(* process_match: the extractor is chosen by the keyword.                  *)
(***************************************************************************)
process_match(keyword, matched_text) ==
    IF startswith(keyword, LitInvoice) THEN extract_invoice_number(matched_text)
    ELSE IF startswith(keyword, LitDateKeyword) THEN extract_invoice_date(matched_text)
    ELSE IF keyword = LitSupplier THEN extract_supplier(matched_text)
    ELSE IF keyword = LitPrice THEN extract_price(matched_text)
    ELSE IF keyword = LitCurrency THEN extract_currency(matched_text)
    ELSE clean_cyrillic(matched_text)

(***************************************************************************)
(* get_context: the window after the keyword, then process_match.          *)
(***************************************************************************)
ContextLen == 200

\* keyword_pos: an offset of the lowered text
keyword_pos(text, keyword) == find(lower(text), lower(keyword), 0)

\* full_context: the slice is taken from the text itself at that offset
full_context(text, keyword) ==
    LET pos == keyword_pos(text, keyword)
    IN  strip(replace_newlines(PySlice(text, pos, pos + ContextLen)))

get_context(text, keyword) ==
    IF keyword_pos(text, keyword) = -1 THEN << >>
    ELSE process_match(keyword, full_context(text, keyword))

(***************************************************************************)
(* The program state.                                                      *)
(*   pdf_files       the documents find_pdf_files returned, in order; each *)
(*                   has its path, the error reading it raises ("none" if  *)
(*                   it reads) and the text its pages extract to           *)
(*   keywords        the keyword list handed to search_pdf                 *)
(*   all_results     main's list of records                                *)
(*   doc             how many documents main's loop has taken so far       *)
(*   pc              where the program stands                              *)
(*   result, supplier_found, full_text, text_lower, kw, index              *)
(*                   the locals of search_pdf (kw: position in keywords)   *)
(*   visited         history: the offsets the current keyword's scan found *)
(*   window          history: the last window get_context handed to        *)
(*                   process_match, with the offset of full_text it starts *)
(*                   at                                                    *)
(*   fn, arg, ret    a call of one pure function: its name, input, result  *)
(***************************************************************************)
VARIABLES pdf_files, keywords, all_results, doc, pc, result, supplier_found,
          full_text, text_lower, kw, index, visited, window, fn, arg, ret

vars == << pdf_files, keywords, all_results, doc, pc, result, supplier_found,
           full_text, text_lower, kw, index, visited, window, fn, arg, ret >>

scan_vars == << pdf_files, keywords, all_results, doc, pc, result,
                supplier_found, full_text, text_lower, kw, index, visited,
                window >>

\* the keyword list of main
MainKeywords == << LitInvoice, LitDateKeyword, LitSupplier, LitPrice, LitCurrency >>

\* the record search_pdf starts from
EmptyResult(pdf_path) ==
    [ file_path |-> pdf_path,
      date_of_invoice |-> << >>,
      supplier |-> << >>,
      invoice |-> << >>,
      currency |-> << >>,
      price_of_the_services_rendered |-> << >> ]

NoWindow == [ start |-> -1, text |-> << >> ]

\* faulty variant: the record is written without the test that context is not empty
WriteFieldUnguarded(res, keyword, context) ==
    IF startswith(keyword, LitInvoice)
    THEN [ res EXCEPT !.invoice = context ]
    ELSE IF startswith(keyword, LitDateKeyword)
    THEN [ res EXCEPT !.date_of_invoice = context ]
    ELSE IF keyword = LitSupplier
    THEN [ res EXCEPT !.supplier = context ]
    ELSE IF keyword = LitPrice
    THEN [ res EXCEPT !.price_of_the_services_rendered = context ]
    ELSE IF keyword = LitCurrency
    THEN [ res EXCEPT !.currency = context ]
    ELSE res

\* the record after one occurrence whose processed context is `context`
WriteField(res, keyword, context) ==
    IF context = << >> THEN res
    ELSE IF startswith(keyword, LitInvoice)
    THEN [ res EXCEPT !.invoice = context ]
    ELSE IF startswith(keyword, LitDateKeyword)
    THEN [ res EXCEPT !.date_of_invoice = context ]
    ELSE IF keyword = LitSupplier
    THEN [ res EXCEPT !.supplier = context ]
    ELSE IF keyword = LitPrice
    THEN [ res EXCEPT !.price_of_the_services_rendered = context ]
    ELSE IF keyword = LitCurrency
    THEN [ res EXCEPT !.currency = context ]
    ELSE res

\* faulty variant: no occurrence leaves the occurrence loop
BreaksNever(keyword, context) == FALSE

\* faulty variant: an occurrence of any keyword with a value leaves the loop
BreaksOnAnyKeyword(keyword, context) == context # << >>

\* the occurrence sets supplier_found and leaves the occurrence loop
Breaks(keyword, context) ==
    /\ context # << >>
    /\ ~startswith(keyword, LitInvoice)
    /\ ~startswith(keyword, LitDateKeyword)
    /\ keyword = LitSupplier

\* the keyword is passed over without a scan
Skips(keyword, found) == keyword = LitSupplier /\ found

\* faulty variant: the cursor moves by one character
AdvanceByOne(i, keyword) == i + 1

\* the cursor after an occurrence at offset i
Advance(i, keyword) == i + Len(keyword)

(***************************************************************************)
(* main: the batch loop.                                                   *)
(***************************************************************************)
\* faulty variant: supplier_found outlives the document
MainNextFileKeepsFlag ==
    /\ pc = "main"
    /\ doc < Len(pdf_files)
    /\ doc' = doc + 1
    /\ result' = EmptyResult(pdf_files[doc + 1].path)
    /\ pc' = "open"
    /\ UNCHANGED << pdf_files, keywords, all_results, supplier_found,
                    full_text, text_lower, kw, index, visited, window, fn,
                    arg, ret >>

\* main takes the next document and search_pdf starts on it
MainNextFile ==
    /\ pc = "main"
    /\ doc < Len(pdf_files)
    /\ doc' = doc + 1
    /\ result' = EmptyResult(pdf_files[doc + 1].path)
    /\ supplier_found' = FALSE
    /\ pc' = "open"
    /\ UNCHANGED << pdf_files, keywords, all_results, full_text, text_lower,
                    kw, index, visited, window, fn, arg, ret >>

\* the loop is over: main writes the report
MainFinish ==
    /\ pc = "main"
    /\ doc = Len(pdf_files)
    /\ pc' = "done"
    /\ UNCHANGED << pdf_files, keywords, all_results, doc, result,
                    supplier_found, full_text, text_lower, kw, index, visited,
                    window, fn, arg, ret >>

(***************************************************************************)
(* search_pdf.                                                             *)
(***************************************************************************)
\* faulty variant: the exception is not caught and ends main
ReadFailsAborts ==
    /\ pc = "open"
    /\ pdf_files[doc].error # "none"
    /\ pc' = "done"
    /\ UNCHANGED << pdf_files, keywords, all_results, doc, result,
                    supplier_found, full_text, text_lower, kw, index, visited,
                    window, fn, arg, ret >>

\* open, PdfReader or extract_text raises: the handler returns the record
\* as it is, and main appends it
ReadFails ==
    /\ pc = "open"
    /\ pdf_files[doc].error # "none"
    /\ all_results' = Append(all_results, result)
    /\ pc' = "main"
    /\ UNCHANGED << pdf_files, keywords, doc, result, supplier_found,
                    full_text, text_lower, kw, index, visited, window, fn,
                    arg, ret >>

\* the pages are read and joined
ReadText ==
    /\ pc = "open"
    /\ pdf_files[doc].error = "none"
    /\ full_text' = pdf_files[doc].text
    /\ kw' = 1
    /\ pc' = "keyword"
    /\ UNCHANGED << pdf_files, keywords, all_results, doc, result,
                    supplier_found, text_lower, index, visited, window, fn,
                    arg, ret >>

\* the head of the keyword loop: skip the keyword or start its scan
KeywordStart ==
    /\ pc = "keyword"
    /\ kw <= Len(keywords)
    /\ IF Skips(keywords[kw], supplier_found)
       THEN /\ kw' = kw + 1
            /\ UNCHANGED << pc, index, text_lower, visited, window >>
       ELSE /\ index' = 0
            /\ text_lower' = lower(full_text)
            /\ visited' = << >>
            /\ window' = NoWindow
            /\ pc' = "scan"
            /\ UNCHANGED kw
    /\ UNCHANGED << pdf_files, keywords, all_results, doc, result,
                    supplier_found, full_text, fn, arg, ret >>

\* the offset find returns for the current keyword and cursor
Found == find(text_lower, lower(keywords[kw]), index)

\* the text get_context is handed for that offset, and what it returns
FoundText == PyFrom(full_text, Found)
FoundContext == get_context(FoundText, keywords[kw])

\* find returns -1: the occurrence loop ends
ScanMiss ==
    /\ pc = "scan"
    /\ Found = -1
    /\ index' = -1
    /\ kw' = kw + 1
    /\ pc' = "keyword"
    /\ UNCHANGED << pdf_files, keywords, all_results, doc, result,
                    supplier_found, full_text, text_lower, visited, window,
                    fn, arg, ret >>

\* find returns an offset: one turn of the occurrence loop
ScanHit ==
    /\ pc = "scan"
    /\ Found # -1
    /\ result' = WriteField(result, keywords[kw], FoundContext)
    /\ visited' = Append(visited, Found)
    /\ window' = IF keyword_pos(FoundText, keywords[kw]) = -1 THEN NoWindow
                 ELSE [ start |-> Found + keyword_pos(FoundText, keywords[kw]),
                        text |-> full_context(FoundText, keywords[kw]) ]
    /\ IF Breaks(keywords[kw], FoundContext)
       THEN /\ supplier_found' = TRUE
            /\ index' = Found
            /\ kw' = kw + 1
            /\ pc' = "keyword"
       ELSE /\ index' = Advance(Found, keywords[kw])
            /\ UNCHANGED << supplier_found, kw, pc >>
    /\ UNCHANGED << pdf_files, keywords, all_results, doc, full_text,
                    text_lower, fn, arg, ret >>

\* the keyword loop is over: search_pdf returns and main appends the record
Return ==
    /\ pc = "keyword"
    /\ kw > Len(keywords)
    /\ all_results' = Append(all_results, result)
    /\ pc' = "main"
    /\ UNCHANGED << pdf_files, keywords, doc, result, supplier_found,
                    full_text, text_lower, kw, index, visited, window, fn,
                    arg, ret >>

Next ==
    \/ MainNextFile
    \/ MainFinish
    \/ ReadFails
    \/ ReadText
    \/ KeywordStart
    \/ ScanMiss
    \/ ScanHit
    \/ Return

(***************************************************************************)
(* One call of a pure function on arg.                                     *)
(***************************************************************************)
CallCleanCyrillic ==
    /\ pc = "call"
    /\ fn = "none"
    /\ fn' = "clean_cyrillic"
    /\ ret' = clean_cyrillic(arg)
    /\ UNCHANGED << scan_vars, arg >>

CallExtractPrice ==
    /\ pc = "call"
    /\ fn = "none"
    /\ fn' = "extract_price"
    /\ ret' = extract_price(arg)
    /\ UNCHANGED << scan_vars, arg >>

NextCall ==
    \/ CallCleanCyrillic
    \/ CallExtractPrice

(***************************************************************************)
(* Inputs.  A text is a concatenation of fragments.                        *)
(***************************************************************************)
RECURSIVE Concats(_, _)
Concats(F, n) ==
    IF n = 0 THEN { << >> }
    ELSE LET C == Concats(F, n - 1) IN C \cup { c \o f : c \in C, f \in F }

\* the state before main's loop, for a document list and a keyword list
Start(files, kws) ==
    /\ pdf_files = files
    /\ keywords = kws
    /\ all_results = << >>
    /\ doc = 0
    /\ pc = "main"
    /\ result = EmptyResult(<< >>)
    /\ supplier_found = FALSE
    /\ full_text = << >>
    /\ text_lower = << >>
    /\ kw = 0
    /\ index = 0
    /\ visited = << >>
    /\ window = NoWindow
    /\ fn = "none"
    /\ arg = << >>
    /\ ret = << >>

Readable(p, t) == [ path |-> p, error |-> "none", text |-> t ]
Unreadable(p, e) == [ path |-> p, error |-> e, text |-> << >> ]
Errors == { "open", "extract_text" }

\* the fragments, as code points
FragSupplierA == LitSupplier \o << 32, 65, 44 >>                \* "Supplier A,"
FragSupplierB == LitSupplier \o << 32, 66, 44 >>                \* "Supplier B,"
FragSupplierLower ==                                              \* "supplier "
    << 115, 117, 112, 112, 108, 105, 101, 114, 32 >>
FragSupplierCurrency ==                                \* "Supplier Currency:B,"
    LitSupplier \o << 32 >> \o LitCurrency \o << 66, 44 >>
FragCurrencyA == LitCurrency \o << 65, 32 >>                    \* "Currency:A "
FragCurrencyB == LitCurrency \o << 66, 32 >>                    \* "Currency:B "
FragCurrencyCyr == LitCurrency \o << 1071, 32 >>           \* "Currency:<U+042F> "
FragInvoice1 ==                                        \* "Invoice <U+2116>1/2 "
    LitInvoice \o << 32, 8470, 49, 47, 50, 32 >>
FragInvoice2 ==                                        \* "Invoice <U+2116>3/4 "
    LitInvoice \o << 32, 8470, 51, 47, 52, 32 >>
FragInvoiceLower == << 105, 110, 118, 111, 105, 99, 101, 32 >>     \* "invoice "
FragDate1 ==                                     \* "Date of invoice:01.02.2003 "
    LitDateKeyword \o << 48, 49, 46, 48, 50, 46, 50, 48, 48, 51, 32 >>
FragDate2 ==                                     \* "Date of invoice:04.05.2006 "
    LitDateKeyword \o << 48, 52, 46, 48, 53, 46, 50, 48, 48, 54, 32 >>
FragDateBad ==                                       \* "Date of invoice:4.5.2006 "
    LitDateKeyword \o << 52, 46, 53, 46, 50, 48, 48, 54, 32 >>
FragPrice1 == LitPrice \o << 55, 32 >>      \* "Price of the services rendered:7 "
FragPrice2 == LitPrice \o << 32, 56, 46, 53, 32 >>                 \* "...: 8.5 "
FragPriceNone == LitPrice \o << 32, 120, 32 >>                       \* "...: x "
FragDotlessI == << 304 >>                        \* U+0130, I with a dot above
FragNewline == << 10 >>

\* a run of 'x' that fills a context window
FillerLen == 195
FragFiller == [ i \in 1..FillerLen |-> 120 ]

\* the path of the i-th document: "d<i>.pdf"
PathOf(i) == << 100, 48 + i, 46, 112, 100, 102 >>

(***************************************************************************)
(* Spec: main's batch over up to MaxDocs documents, a few texts each.      *)
(***************************************************************************)
MaxDocs == 2

BatchTexts ==
    { << >>,
      FragSupplierA,
      FragSupplierA \o FragCurrencyA \o FragSupplierB,
      FragInvoice1 \o FragDate1 \o FragPrice1 \o FragCurrencyB }

BatchDocs(i) ==
    { Readable(PathOf(i), t) : t \in BatchTexts }
        \cup { Unreadable(PathOf(i), e) : e \in Errors }

RECURSIVE DocLists(_)
DocLists(n) ==
    IF n = 0 THEN { << >> }
    ELSE { Append(l, d) : l \in DocLists(n - 1), d \in BatchDocs(n) }

Init == \E n \in 0..MaxDocs : \E files \in DocLists(n) : Start(files, MainKeywords)

Spec == Init /\ [][Next]_vars

(***************************************************************************)
(* SpecScan: search_pdf on one document whose text is any concatenation of *)
(* up to MaxFrags fragments of one family, under main's keyword list; the  *)
(* supplier texts also under a list that names the supplier keyword twice. *)
(***************************************************************************)
MaxFrags == 3

SupplierFrags ==
    { FragSupplierA, FragSupplierB, FragSupplierLower, FragSupplierCurrency,
      FragDotlessI }
LongFrags == { FragSupplierA, FragFiller, FragNewline }
TwiceFrags == { FragSupplierA, FragSupplierB, FragSupplierLower }
CurrencyFrags ==
    { FragCurrencyA, FragCurrencyB, FragCurrencyCyr, FragDotlessI, FragNewline }
InvoiceFrags == { FragInvoice1, FragInvoice2, FragInvoiceLower, FragDate1 }
DateFrags == { FragDate1, FragDate2, FragDateBad, FragNewline }
PriceFrags == { FragPrice1, FragPrice2, FragPriceNone, FragCurrencyA }

ScanTexts ==
    Concats(SupplierFrags, MaxFrags) \cup Concats(LongFrags, MaxFrags)
        \cup Concats(CurrencyFrags, MaxFrags)
        \cup Concats(InvoiceFrags, MaxFrags) \cup Concats(DateFrags, MaxFrags)
        \cup Concats(PriceFrags, MaxFrags)

SupplierTwice == MainKeywords \o << LitSupplier >>

InitScan ==
    \/ \E t \in ScanTexts : Start(<< Readable(PathOf(1), t) >>, MainKeywords)
    \/ \E t \in Concats(TwiceFrags, MaxFrags) :
           Start(<< Readable(PathOf(1), t) >>, SupplierTwice)
    \/ \E e \in Errors : Start(<< Unreadable(PathOf(1), e) >>, MainKeywords)

SpecScan == InitScan /\ [][Next]_vars

(***************************************************************************)
(* What the properties below speak of.                                     *)
(***************************************************************************)
Last(s) == s[Len(s)]
Max(S) == CHOOSE x \in S : \A y \in S : y <= x

FieldNames ==
    { "date_of_invoice", "supplier", "invoice", "currency",
      "price_of_the_services_rendered" }

\* the field and the extractor of each configured keyword
FieldOf(k) ==
    CASE k = LitInvoice -> "invoice"
      [] k = LitDateKeyword -> "date_of_invoice"
      [] k = LitSupplier -> "supplier"
      [] k = LitPrice -> "price_of_the_services_rendered"
      [] k = LitCurrency -> "currency"

ExtractorOf(k, w) ==
    CASE k = LitInvoice -> extract_invoice_number(w)
      [] k = LitDateKeyword -> extract_invoice_date(w)
      [] k = LitSupplier -> extract_supplier(w)
      [] k = LitPrice -> extract_price(w)
      [] k = LitCurrency -> extract_currency(w)

\* the offsets at which the keyword occurs, case-insensitively
Occurrences(text, keyword) ==
    LET low == lower(text)
        key == lower(keyword)
    IN  { i \in 0..(Len(low) - Len(key)) :
              SubSeq(low, i + 1, i + Len(key)) = key }

\* what the occurrence at offset i is extracted to
ExtractionAt(text, keyword, i) == get_context(PyFrom(text, i), keyword)

\* the occurrences whose extraction is not empty
Hits(text, keyword) ==
    { i \in Occurrences(text, keyword) : ExtractionAt(text, keyword, i) # << >> }

FirstMatch(text, keyword) ==
    LET hits == Hits(text, keyword)
    IN  IF hits = {} THEN << >> ELSE ExtractionAt(text, keyword, Min(hits))

LastMatch(text, keyword) ==
    LET hits == Hits(text, keyword)
    IN  IF hits = {} THEN << >> ELSE ExtractionAt(text, keyword, Max(hits))

\* a step of the occurrence loop that found an occurrence
FoundOccurrence == pc = "scan" /\ visited' # visited

\* a step that hands main the record of a document that was read
ReturnsRecord ==
    /\ all_results' # all_results
    /\ pdf_files[Len(all_results')].error = "none"

\* what one step of the search must satisfy for the supplier field
C1_Step ==
    /\ (supplier_found /\ doc' = doc)
           => /\ supplier_found'
              /\ result'.supplier = result.supplier
              /\ ~(pc' = "scan" /\ keywords[kw'] = LitSupplier)
    /\ (FoundOccurrence /\ keywords[kw] = LitSupplier)
           => LET e == ExtractionAt(full_text, LitSupplier, Last(visited'))
              IN  e # << >> => /\ result'.supplier = e
                               /\ supplier_found'
                               /\ pc' = "keyword"
    /\ ReturnsRecord
           => Last(all_results').supplier
                  = FirstMatch(pdf_files[Len(all_results')].text, LitSupplier)

(***************************************************************************)
(* C1.  The supplier is first-match-wins: an occurrence of "Supplier"      *)
(* whose extraction is not empty is written to the supplier field, sets    *)
(* supplier_found and ends the scan of "Supplier"; from then on the field  *)
(* does not change and "Supplier" is not scanned again for the document;   *)
(* the record returned holds the extraction of the leftmost occurrence     *)
(* whose extraction is not empty.                                          *)
(***************************************************************************)
C1_SupplierFirstMatchWins == [][C1_Step]_vars

\* "Supplier A,Supplier B," was searched and its record holds "A"
C1_Witness ==
    /\ Len(all_results) = 1
    /\ pdf_files[1].text = FragSupplierA \o FragSupplierB
    /\ all_results[1].supplier = << 65 >>

\* what one step of the search must satisfy for the other four fields
C2_Step ==
    /\ (FoundOccurrence /\ keywords[kw] # LitSupplier)
           => /\ pc' = "scan" /\ kw' = kw
              /\ LET e == ExtractionAt(full_text, keywords[kw], Last(visited'))
                 IN  e # << >> => result'[FieldOf(keywords[kw])] = e
    /\ ReturnsRecord
           => \A k \in { LitInvoice, LitDateKeyword, LitPrice, LitCurrency } :
                  Last(all_results')[FieldOf(k)]
                      = LastMatch(pdf_files[Len(all_results')].text, k)

(***************************************************************************)
(* C2.  Invoice number, date, price and currency are last-match-wins: an   *)
(* occurrence of their keyword never ends the scan, every occurrence whose *)
(* extraction is not empty overwrites the field, and the record returned   *)
(* holds the extraction of the rightmost occurrence whose extraction is    *)
(* not empty.                                                              *)
(***************************************************************************)
C2_OthersLastMatchWins == [][C2_Step]_vars

\* "Currency:A Currency:B " was searched and its record holds "B"
C2_Witness ==
    /\ Len(all_results) = 1
    /\ pdf_files[1].text = FragCurrencyA \o FragCurrencyB
    /\ all_results[1].currency = << 66 >>

\* what one step of the search must satisfy for the dispatch on the keyword
C5_Step ==
    pc = "scan" =>
        LET k == keywords[kw]
        IN  /\ result'.file_path = result.file_path
            /\ \A f \in FieldNames \ { FieldOf(k) } : result'[f] = result[f]
            /\ (visited' # visited /\ window' # NoWindow)
                   => LET e == ExtractorOf(k, window'.text)
                      IN  result'[FieldOf(k)]
                              = IF e # << >> THEN e ELSE result[FieldOf(k)]

(***************************************************************************)
(* C5.  Dispatch is by keyword: while the occurrences of keyword k are     *)
(* scanned only the field of k may change, file_path and the other four    *)
(* fields stay as they are, and what is written is the result of the       *)
(* extractor of k on the window, whatever the window contains.             *)
(***************************************************************************)
C5_DispatchByKeyword == [][C5_Step]_vars

\* the window "Supplier Currency:B," found by "Supplier" went to the
\* supplier extractor and the supplier field; the currency field is empty
C5_Witness ==
    /\ pc = "keyword"
    /\ kw > 1
    /\ keywords[kw - 1] = LitSupplier
    /\ window.text = FragSupplierCurrency
    /\ result.supplier = LitCurrency \o << 66 >>
    /\ result.currency = << >>

\* the offset of full_text whose prefix lowers to i code points
OriginalOffsets(text, i) ==
    { o \in 0..Len(text) : Len(lower(PySlice(text, 0, o))) = i }

(***************************************************************************)
(* C8.  Every window handed to an extractor starts at the offset of the    *)
(* occurrence the scan found, is at most 200 characters long and holds no  *)
(* newline: it is the slice of the full text at that offset, with every    *)
(* newline replaced by a space.                                            *)
(***************************************************************************)
C8_WindowAtOccurrence ==
    window # NoWindow =>
        /\ visited # << >>
        /\ window.start \in
               { Last(visited) } \cup OriginalOffsets(full_text, Last(visited))
        /\ Len(window.text) <= ContextLen
        /\ \A i \in 1..Len(window.text) : window.text[i] # 10
        /\ window.text
               = strip(replace_newlines(
                     PySlice(full_text, window.start, window.start + ContextLen)))

\* what one step of the search must satisfy for the fields of the record
C10_Step ==
    /\ \A f \in FieldNames :
           (doc' = doc /\ result[f] # << >>) => result'[f] # << >>
    /\ supplier_found' <=> (result'.supplier # << >>)
    /\ (/\ FoundOccurrence
        /\ ExtractionAt(full_text, keywords[kw], Last(visited')) = << >>)
           => /\ result' = result
              /\ pc' = "scan"
              /\ index' = Last(visited') + Len(keywords[kw])

(***************************************************************************)
(* C10.  Within a document no field goes from non-empty back to empty; an  *)
(* occurrence whose extraction is empty leaves the record as it is and the *)
(* scan goes on behind it; supplier_found holds exactly when the supplier  *)
(* field is not empty.                                                     *)
(***************************************************************************)
C10_FieldsNeverCleared == [][C10_Step]_vars

\* the scan of "Currency:" stands behind an occurrence whose extraction was
\* empty, and the currency found before it is still there
C10_Witness ==
    /\ pc = "scan"
    /\ keywords[kw] = LitCurrency
    /\ window # NoWindow
    /\ extract_currency(window.text) = << >>
    /\ result.currency = << 66 >>

(***************************************************************************)
(* SpecKeywords: search_pdf under other keyword lists: short keywords that *)
(* overlap themselves, on texts of up to MaxChars letters, and the         *)
(* supplier keyword twice.                                                 *)
(***************************************************************************)
MaxChars == 4

KeyAa == << 65, 97 >>                                                   \* "Aa"
KeyAba == << 97, 98, 97 >>                                             \* "aba"
LetterFrags == { << 97 >>, << 65 >>, << 98 >> }                  \* "a" "A" "b"

InitKeywords ==
    \/ \E t \in Concats(LetterFrags, MaxChars) :
       \E kws \in { << KeyAa >>, << KeyAba, KeyAa >> } :
           Start(<< Readable(PathOf(1), t) >>, kws)
    \/ \E t \in Concats(TwiceFrags, MaxFrags) :
           Start(<< Readable(PathOf(1), t) >>, << LitSupplier, LitSupplier >>)
    \/ \E e \in Errors : Start(<< Unreadable(PathOf(1), e) >>, << KeyAa >>)

SpecKeywords == InitKeywords /\ [][Next]_vars

(***************************************************************************)
(* SpecCall: one pure function applied to one input.                       *)
(***************************************************************************)
MaxLen == 3

\* code points at the edges of the two Cyrillic ranges, and 'A'
CleanFrags ==
    { << 1023 >>, << 1024 >>, << 1279 >>, << 1280 >>, << 1327 >>, << 1328 >>,
      << 65 >> }

\* '1', an Arabic-Indic digit, '.', ' ', 'x'
PriceFrags2 == { << 49 >>, << 1635 >>, << 46 >>, << 32 >>, << 120 >> }

CallInputs ==
    Concats(CleanFrags, MaxLen)
        \cup { pre \o LitPrice \o t :
                   pre \in { << >>, << 120 >>, LitPrice \o << 120 >> },
                   t \in Concats(PriceFrags2, MaxLen) }

InitCall ==
    \E a \in CallInputs :
        /\ arg = a
        /\ ret = << >>
        /\ fn = "none"
        /\ pdf_files = << >>
        /\ keywords = MainKeywords
        /\ all_results = << >>
        /\ doc = 0
        /\ pc = "call"
        /\ result = EmptyResult(<< >>)
        /\ supplier_found = FALSE
        /\ full_text = << >>
        /\ text_lower = << >>
        /\ kw = 0
        /\ index = 0
        /\ visited = << >>
        /\ window = NoWindow

SpecCall == InitCall /\ [][NextCall]_vars

(***************************************************************************)
(* C3.  A document that cannot be read still yields exactly one record,    *)
(* with its path and five empty fields; the failure does not end the       *)
(* batch: main goes on and ends with one record for every document.        *)
(***************************************************************************)
C3_UnreadableYieldsEmptyRecord ==
    /\ Len(all_results) <= doc
    /\ \A i \in 1..Len(all_results) :
           pdf_files[i].error # "none"
               => all_results[i] = EmptyResult(pdf_files[i].path)
    /\ (pc = "main" /\ doc > 0 /\ pdf_files[doc].error # "none")
           => Len(all_results) = doc
    /\ pc = "done" => Len(all_results) = Len(pdf_files)

\* the batch is over; its first document could not be read, its second one
\* gave a supplier
C3_Witness ==
    /\ pc = "done"
    /\ Len(pdf_files) = 2
    /\ pdf_files[1].error = "open"
    /\ all_results[1] = EmptyResult(PathOf(1))
    /\ all_results[2].supplier = << 65 >>

\* the record of a document taken alone
RecordOf(d) ==
    IF d.error # "none" THEN EmptyResult(d.path)
    ELSE [ file_path |-> d.path,
           date_of_invoice |-> LastMatch(d.text, LitDateKeyword),
           supplier |-> FirstMatch(d.text, LitSupplier),
           invoice |-> LastMatch(d.text, LitInvoice),
           currency |-> LastMatch(d.text, LitCurrency),
           price_of_the_services_rendered |-> LastMatch(d.text, LitPrice) ]

(***************************************************************************)
(* C4.  main yields one record per document, in the order of pdf_files,    *)
(* one document at a time, and each record is determined by the text and   *)
(* the path of its own document: nothing of an earlier document shows in   *)
(* it.                                                                     *)
(***************************************************************************)
C4_OneRecordPerDocument ==
    /\ Len(all_results) = IF pc \in { "main", "done" } THEN doc ELSE doc - 1
    /\ pc = "done" => doc = Len(pdf_files)
    /\ \A i \in 1..Len(all_results) : all_results[i] = RecordOf(pdf_files[i])

\* the batch is over; both documents hold a supplier, and the second one's
\* record has it although the first one set supplier_found
C4_Witness ==
    /\ pc = "done"
    /\ Len(all_results) = 2
    /\ all_results[1].supplier = << 65 >>
    /\ all_results[2].supplier = << 65 >>
    /\ all_results[1].file_path = PathOf(1)
    /\ all_results[2].file_path = PathOf(2)
    /\ pdf_files[1].text # pdf_files[2].text

(***************************************************************************)
(* C6.  clean_cyrillic returns its input without the code points of        *)
(* U+0400..U+04FF and U+0500..U+052F, every other code point kept in its   *)
(* place in the order; applied to its own result it changes nothing.       *)
(***************************************************************************)
C6_CleanCyrillic ==
    fn = "clean_cyrillic" =>
        LET kept == { i \in 1..Len(arg) :
                          ~(arg[i] \in 1024..1279 \/ arg[i] \in 1280..1327) }
            \* the place in arg of the j-th code point kept
            place(j) == CHOOSE i \in kept :
                            Cardinality({ h \in kept : h <= i }) = j
        IN  /\ \A j \in 1..Len(ret) : ret[j] \notin 1024..1327
            /\ Len(ret) = Cardinality(kept)
            /\ \A j \in 1..Len(ret) : ret[j] = arg[place(j)]
            /\ clean_cyrillic(ret) = ret

\* an input whose code points at both edges of both ranges were removed
C6_Witness ==
    /\ fn = "clean_cyrillic"
    /\ arg = << 1279, 65, 1280 >>
    /\ ret = << 65 >>

\* the number at position a: digits, then '.' and digits if both are there
DecimalAt(s, a) ==
    LET b == RunEnd(s, a, "IsDigit")
    IN  IF b <= Len(s) /\ s[b] = 46 /\ ClassAt(s, b + 1, "IsDigit")
        THEN SubSeq(s, a, RunEnd(s, b + 1, "IsDigit") - 1)
        ELSE SubSeq(s, a, b - 1)

(***************************************************************************)
(* C7.  extract_price returns the empty string when the literal followed   *)
(* by optional whitespace and a number does not occur, and otherwise the   *)
(* decimal number after the first such literal: one or more digits,        *)
(* optionally followed by a '.' and more digits.                           *)
(***************************************************************************)
C7_PriceIsDecimalNumber ==
    fn = "extract_price" =>
        LET numbered == { p \in 1..Len(arg) :
                            /\ HasAt(arg, p, LitPrice)
                            /\ ClassAt(arg, RunEnd(arg, p + Len(LitPrice), "IsSpace"),
                                       "IsDigit") }
        IN  ret = IF numbered = {} THEN << >>
                  ELSE DecimalAt(arg, RunEnd(arg, Min(numbered) + Len(LitPrice),
                                             "IsSpace"))

\* what one step of the scan of a keyword must satisfy for the cursor
C9_Step ==
    /\ (pc = "scan" /\ pc' = "scan")
           => /\ index' > index
              /\ index' <= Len(text_lower)
    /\ pc = "scan" => pc' \in { "scan", "keyword" }
    /\ FoundOccurrence
           => LET k == keywords[kw]
                  v == Last(visited')
                  occ == Occurrences(full_text, k)
              IN  /\ v \in occ
                  /\ v >= index
                  /\ \A j \in occ : ~(index <= j /\ j < v)
                  /\ visited # << >> => v >= Last(visited) + Len(k)
                  /\ pc' = "scan" => index' = v + Len(k)
    /\ (pc = "scan" /\ pc' = "keyword" /\ index' = -1)
           => LET k == keywords[kw]
                  found == { visited[n] : n \in 1..Len(visited) }
              IN  \A j \in Occurrences(full_text, k) :
                      \/ j \in found
                      \/ \E v \in found : v < j /\ j < v + Len(k)

(***************************************************************************)
(* C9.  The scan of a keyword ends: every turn of the occurrence loop      *)
(* that stays in the loop moves the cursor forward, and never beyond the   *)
(* end of the text.  The scan finds case-insensitive occurrences from left *)
(* to right, each the first one at or after the cursor; after an           *)
(* occurrence at offset i the cursor is i + len(keyword), so the next one  *)
(* found starts at i + len(keyword) or later; when the scan runs out,      *)
(* every occurrence that overlaps no occurrence found before it was found. *)
(***************************************************************************)
C9_ScanLeftToRightAndEnds == [][C9_Step]_vars

\* "aaaa" was scanned for "Aa": the occurrences at 0 and 2 were found, the
\* one at 1 overlaps the first and was passed over
C9_Witness ==
    /\ pc = "keyword"
    /\ index = -1
    /\ full_text = << 97, 97, 97, 97 >>
    /\ keywords = << KeyAa >>
    /\ visited = << 0, 2 >>

=============================================================================
